---- MODULE Spec2Model ----
(***************************************************************************)
(* A model of rusty-ls (src/src/main.rs): a directory lister with a        *)
(* compact and a detailed renderer.                                        *)
(*                                                                         *)
(* Text is a sequence of symbols.  A symbol is one character, except for   *)
(* the ANSI escape sequences, the io::Error messages and the literal       *)
(* "Error: ", which are single symbols.  "BAD" is a byte of a file name    *)
(* that is not valid UTF-8; "U+FFFD" is the replacement character.         *)
(*                                                                         *)
(* Writes to standard output and standard error are taken to succeed.      *)
(***************************************************************************)
EXTENDS Integers, Sequences, FiniteSets, TLC

\* ------------------------------------------------------------------ bounds
\* Longest directory stream enumerated.
MaxEntries == 3
\* format_size is applied to every size in 0..MaxSmallSize ...
MaxSmallSize == 2100
\* ... and to every multiple of 512 KiB up to MaxHalfMiB halves of a MiB.
MaxHalfMiB == 6
\* format_permissions is applied to every mode in 0..MaxPermBits, alone and
\* with the file-type bits of a regular file and of a directory.
MaxPermBits == 4095

\* ------------------------------------------------------------ text helpers
Spaces(n) == [i \in 1..n |-> " "]

Digit(d) == <<"0", "1", "2", "3", "4", "5", "6", "7", "8", "9">>[d + 1]

\* Display of an unsigned integer: format!("{}", n).
RECURSIVE ToDec(_)
ToDec(n) == IF n < 10 THEN <<Digit(n)>> ELSE ToDec(n \div 10) \o <<Digit(n % 10)>>

\* format!("{:<w}", s): left-justified, padded with spaces to at least w
\* symbols, never truncated.
PadLeft(s, w) == IF Len(s) >= w THEN s ELSE s \o Spaces(w - Len(s))

\* format!("{:.p}", s) for a string s: at most the first p characters.
Truncate(s, p) == IF Len(s) <= p THEN s ELSE SubSeq(s, 1, p)

\* OsStr::to_string_lossy: invalid bytes become U+FFFD.
to_string_lossy(name) == [i \in 1..Len(name) |-> IF name[i] = "BAD" THEN "U+FFFD" ELSE name[i]]

\* str::starts_with(".")
starts_with_dot(s) == Len(s) >= 1 /\ s[1] = "."

\* mode & mask on u32 values.
RECURSIVE BitAnd(_, _)
BitAnd(a, b) ==
    IF a = 0 \/ b = 0 THEN 0
    ELSE (a % 2) * (b % 2) + 2 * BitAnd(a \div 2, b \div 2)

\* ------------------------------------------------------- metadata helpers
ESC_BLUE == "ESC[34m"
ESC_BOLD == "ESC[1m"
ESC_RESET == "ESC[0m"

colorize_string(text, color) == <<color>> \o text \o <<ESC_RESET>>

bold(text) == <<ESC_BOLD>> \o text \o <<ESC_RESET>>

PermissionTable ==
    << <<256, "r">>, <<128, "w">>, <<64, "x">>,
       <<32, "r">>, <<16, "w">>, <<8, "x">>,
       <<4, "r">>, <<2, "w">>, <<1, "x">> >>

\* A slip in the table: the other-read mask tests the other-write bit.
PermissionTableSlip ==
    << <<256, "r">>, <<128, "w">>, <<64, "x">>,
       <<32, "r">>, <<16, "w">>, <<8, "x">>,
       <<2, "r">>, <<2, "w">>, <<1, "x">> >>

format_permissions_slip(mode) ==
    [i \in 1..9 |->
        IF BitAnd(mode, PermissionTableSlip[i][1]) # 0 THEN PermissionTableSlip[i][2] ELSE "-"]

format_permissions(mode) ==
    [i \in 1..9 |->
        IF BitAnd(mode, PermissionTable[i][1]) # 0 THEN PermissionTable[i][2] ELSE "-"]

UNIT == 1024

RECURSIVE Pow(_, _)
Pow(b, e) == IF e = 0 THEN 1 ELSE b * Pow(b, e - 1)

\* (size as f64).log(UNIT as f64).floor() for size >= UNIT; within the sizes
\* of this model the floating-point quotient of logarithms has the exact floor.
RECURSIVE FloorLog(_, _)
FloorLog(size, base) == IF size < base THEN 0 ELSE 1 + FloorLog(size \div base, base)

\* The decimal digits of rem/den after the point, den a power of two.
RECURSIVE FracDigits(_, _)
FracDigits(rem, den) ==
    IF rem = 0 THEN <<>>
    ELSE <<Digit((rem * 10) \div den)>> \o FracDigits((rem * 10) % den, den)

\* (num as f64 / den as f64).to_string(): the shortest decimal that reads back
\* as the same f64, without a fraction when the quotient is whole.  For the
\* sizes of this model the quotient has at most 14 significant digits and the
\* shortest decimal is the exact one.
F64ToString(num, den) ==
    ToDec(num \div den) \o
        (IF num % den = 0 THEN <<>> ELSE <<".">> \o FracDigits(num % den, den))

UnitLetter(exp) ==
    CASE exp = 1 -> "K"
      [] exp = 2 -> "M"
      [] exp = 3 -> "G"
      [] exp = 4 -> "T"
      [] OTHER -> "P"

format_size(size) ==
    IF size < UNIT THEN ToDec(size) \o <<" ", "B">>
    ELSE LET exp == FloorLog(size, UNIT)
             size_str == F64ToString(size, Pow(UNIT, exp))
             unit == UnitLetter(exp)
         IN  Truncate(size_str, 1) \o <<" ", unit, "B">>

\* Option<String>
Some(v) == [some |-> TRUE, val |-> v]

None == [some |-> FALSE, val |-> <<>>]

unwrap_or(opt, default) == IF opt.some THEN opt.val ELSE default

\* The OS identity database read by getpwuid / getgrgid: the name of an id,
\* or a null pointer for an id that has no entry.
PasswdDb(uid) ==
    CASE uid = 0 -> Some(<<"r", "o", "o", "t">>)
      [] uid = 1000 -> Some(<<"j", "o">>)
      [] OTHER -> None

GroupDb(gid) ==
    CASE gid = 0 -> Some(<<"r", "o", "o", "t">>)
      [] gid = 1000 -> Some(<<"s", "t", "a", "f", "f">>)
      [] OTHER -> None

get_user_by_uid(uid) ==
    LET passwd == PasswdDb(uid)
    IN  IF passwd.some THEN Some(to_string_lossy(passwd.val)) ELSE None

get_group_by_gid(gid) ==
    LET group == GroupDb(gid)
    IN  IF group.some THEN Some(to_string_lossy(group.val)) ELSE None

MonthAbbrev ==
    << <<"J", "a", "n">>, <<"F", "e", "b">>, <<"M", "a", "r">>, <<"A", "p", "r">>,
       <<"M", "a", "y">>, <<"J", "u", "n">>, <<"J", "u", "l">>, <<"A", "u", "g">>,
       <<"S", "e", "p">>, <<"O", "c", "t">>, <<"N", "o", "v">>, <<"D", "e", "c">> >>

\* A two-column number, filled on the left.
Pad2(n, fill) == IF n < 10 THEN <<fill, Digit(n)>> ELSE ToDec(n)

\* mod_time.format("%b %e %H:%M") of a local date and time.
format_mod_time(t) ==
    MonthAbbrev[t.mon] \o <<" ">> \o Pad2(t.day, " ") \o <<" ">>
        \o Pad2(t.hour, "0") \o <<":">> \o Pad2(t.min, "0")

\* ------------------------------------------------------------ environment
\* One item of the directory stream (an io::Result<DirEntry>) with what the
\* OS answers for it: read_ok is whether reading the item succeeded, meta_ok
\* whether entry.metadata() succeeds, mtime_ok whether metadata.modified()
\* does; read_err, meta_err and mtime_err are the io::Error messages otherwise.
Item(rd, rd_err, name, meta_ok, meta_err, is_dir, mode, uid, gid, len, mtime_ok, mtime_err, mtime) ==
    [read_ok |-> rd, read_err |-> rd_err, name |-> name, meta_ok |-> meta_ok,
     meta_err |-> meta_err,
     is_dir |-> is_dir, mode |-> mode, uid |-> uid, gid |-> gid, len |-> len,
     mtime_ok |-> mtime_ok, mtime_err |-> mtime_err, mtime |-> mtime]

Time(mon, day, hour, min) == [mon |-> mon, day |-> day, hour |-> hour, min |-> min]

\* The modes are st_mode values: 33152 = 0o100600, 16877 = 0o040755,
\* 33188 = 0o100644, 35309 = 0o104755 (a setuid file).

ItemHidden ==
    Item(TRUE, "", <<".", "h">>, TRUE, "", FALSE, 33152, 0, 0, 0, TRUE, "", Time(1, 5, 14, 32))

ItemDocs ==
    Item(TRUE, "", <<"d", "o", "c", "s">>, TRUE, "", TRUE, 16877, 1000, 1000, 4096, TRUE, "",
         Time(11, 23, 9, 5))

ItemReadme ==
    Item(TRUE, "", <<"r", "e", "a", "d", "m", "e">>, TRUE, "", FALSE, 33188, 1000, 1000, 2048,
         TRUE, "", Time(12, 31, 23, 59))

\* A hidden directory.
ItemHiddenDir ==
    Item(TRUE, "", <<".", "g", "i", "t">>, TRUE, "", TRUE, 16877, 0, 1000, 4096, TRUE, "",
         Time(2, 1, 0, 0))

\* An entry whose metadata cannot be fetched.
ItemNoMeta ==
    Item(TRUE, "", <<"g", "o", "n", "e">>, FALSE, "ENOENT", FALSE, 0, 0, 0, 0, FALSE, "", Time(1, 1, 0, 0))

\* An entry whose modification time is unavailable.
ItemNoTime ==
    Item(TRUE, "", <<"n", "t">>, TRUE, "", FALSE, 33188, 0, 0, 1023, FALSE, "EUNSUPPORTED",
         Time(1, 1, 0, 0))

\* An entry owned by ids the identity database does not know, with a name
\* that is not valid UTF-8.
ItemOrphan ==
    Item(TRUE, "", <<"BAD", "o">>, TRUE, "", FALSE, 35309, 4242, 4243, 1536, TRUE, "",
         Time(7, 4, 12, 0))

\* An item of the stream that could not be read.
ItemReadError ==
    Item(FALSE, "EIO", <<>>, FALSE, "", FALSE, 0, 0, 0, 0, FALSE, "", Time(1, 1, 0, 0))

ItemPool ==
    {ItemHidden, ItemDocs, ItemReadme, ItemHiddenDir, ItemNoMeta, ItemNoTime, ItemOrphan,
     ItemReadError}

\* The streams a directory can yield: no two items alike (names are unique).
Streams ==
    UNION {{s \in [1..n -> ItemPool] : \A i, j \in 1..n : i # j => s[i] # s[j]} : n \in 0..MaxEntries}

OpenErrors == {"ENOENT", "EACCES", "ENOTDIR"}

\* ------------------------------------------------------------------ state
VARIABLES
    opt,          \* Opt: [path, all, long]; path is "" when absent
    dir,          \* the directory at the path: [open_ok, open_err, stream]
    pc,           \* where the program is
    path,         \* main's local path
    filtered_entries, \* list_files' filtered_entries
    idx,          \* the position of list_files' for loop over filtered_entries
    result,       \* what list_files returned: [tag, msg]
    stdout,       \* the text written to standard output
    stderr,       \* the text written to standard error
    exit_status,  \* the exit status of the process, -1 while it runs
    calls,        \* how many times list_files was called
    shown,        \* the stream positions of the entries written to standard output
    farg,         \* helper specification: the argument
    fret,         \* helper specification: the formatted text
    fpc           \* helper specification: which helper is applied, and whether it was

vars ==
    <<opt, dir, pc, path, filtered_entries, idx, result, stdout, stderr, exit_status, calls,
      shown, farg, fret, fpc>>

listerVars ==
    <<opt, dir, pc, path, filtered_entries, idx, result, stdout, stderr, exit_status, calls, shown>>

helperVars == <<farg, fret, fpc>>

\* Result<(), Box<dyn Error>>
Ok == [tag |-> "Ok", msg |-> ""]

Err(msg) == [tag |-> "Err", msg |-> msg]

NoResult == [tag |-> "none", msg |-> ""]

\* -------------------------------------------------------------- renderers
\* The filter with the all flag ignored: hidden entries are always dropped.
RECURSIVE FilterMap_ignores_all(_, _, _)
FilterMap_ignores_all(stream, all, i) ==
    IF i > Len(stream) THEN <<>>
    ELSE IF ~stream[i].read_ok \/ starts_with_dot(to_string_lossy(stream[i].name))
         THEN FilterMap_ignores_all(stream, all, i + 1)
         ELSE <<[pos |-> i, e |-> stream[i]]>> \o FilterMap_ignores_all(stream, all, i + 1)

\* The filter collecting the entries in reverse order.
RECURSIVE FilterMap_reversed(_, _, _)
FilterMap_reversed(stream, all, i) ==
    IF i > Len(stream) THEN <<>>
    ELSE IF ~stream[i].read_ok \/ (~all /\ starts_with_dot(to_string_lossy(stream[i].name)))
         THEN FilterMap_reversed(stream, all, i + 1)
         ELSE FilterMap_reversed(stream, all, i + 1) \o <<[pos |-> i, e |-> stream[i]]>>

\* The filter ending the enumeration at the first item that could not be read.
RECURSIVE FilterMap_stops_at_error(_, _, _)
FilterMap_stops_at_error(stream, all, i) ==
    IF i > Len(stream) THEN <<>>
    ELSE IF ~stream[i].read_ok THEN <<>>
    ELSE IF ~all /\ starts_with_dot(to_string_lossy(stream[i].name))
         THEN FilterMap_stops_at_error(stream, all, i + 1)
         ELSE <<[pos |-> i, e |-> stream[i]]>> \o FilterMap_stops_at_error(stream, all, i + 1)

\* The closure of filter_map in list_files, applied to the stream from
\* position i on: an item that could not be read is dropped, a name starting
\* with "." is dropped unless all; the rest is collected in order.  Each
\* collected entry keeps its position in the stream as pos.
RECURSIVE FilterMap(_, _, _)
FilterMap(stream, all, i) ==
    IF i > Len(stream) THEN <<>>
    ELSE LET entry == stream[i]
             file_name_str == to_string_lossy(entry.name)
         IN  IF ~entry.read_ok THEN FilterMap(stream, all, i + 1)
             ELSE IF ~all /\ starts_with_dot(file_name_str) THEN FilterMap(stream, all, i + 1)
             ELSE <<[pos |-> i, e |-> entry]>> \o FilterMap(stream, all, i + 1)

\* The owner field with a placeholder for an unknown id.
OwnerField_placeholder(uid) == unwrap_or(get_user_by_uid(uid), <<"?">>)

\* The owner and group fields of a row.
OwnerField(uid) == unwrap_or(get_user_by_uid(uid), <<>>)

GroupField(gid) == unwrap_or(get_group_by_gid(gid), <<>>)

\* The line print_long_format prints for an entry whose metadata and
\* modification time are available.
LongRow(entry) ==
    LET file_name_str == to_string_lossy(entry.name)
        permission == format_permissions(entry.mode)
        owner == OwnerField(entry.uid)
        group == GroupField(entry.gid)
        size == format_size(entry.len)
        formatted_mod_time == format_mod_time(entry.mtime)
        file_type == IF entry.is_dir THEN colorize_string(file_name_str, ESC_BLUE)
                     ELSE file_name_str
    IN  PadLeft(permission, 10) \o <<" ">> \o PadLeft(owner, 8) \o <<" ">>
            \o PadLeft(group, 8) \o <<" ">> \o PadLeft(size, 10) \o <<" ">>
            \o PadLeft(formatted_mod_time, 15) \o <<" ">> \o file_type \o <<"\n">>

\* print_long_format skipping an entry whose metadata is unavailable.
print_long_format_skips(entry) ==
    IF ~entry.meta_ok THEN [res |-> Ok, out |-> <<>>]
    ELSE IF ~entry.mtime_ok THEN [res |-> Err(entry.mtime_err), out |-> <<>>]
    ELSE [res |-> Ok, out |-> LongRow(entry)]

\* print_long_format printing the row before it asks for the modification time.
print_long_format_prints_early(entry) ==
    IF ~entry.meta_ok THEN [res |-> Err(entry.meta_err), out |-> <<>>]
    ELSE IF ~entry.mtime_ok THEN [res |-> Err(entry.mtime_err), out |-> LongRow(entry)]
    ELSE [res |-> Ok, out |-> LongRow(entry)]

\* print_long_format: the result and the text written to standard output.
print_long_format(entry) ==
    IF ~entry.meta_ok THEN [res |-> Err(entry.meta_err), out |-> <<>>]
    ELSE IF ~entry.mtime_ok THEN [res |-> Err(entry.mtime_err), out |-> <<>>]
    ELSE [res |-> Ok, out |-> LongRow(entry)]

\* The token with bold applied to the coloured name.
NormalToken_bold_outside(entry) ==
    LET file_name_str == to_string_lossy(entry.name)
    IN  IF entry.is_dir THEN bold(colorize_string(file_name_str, ESC_BLUE))
        ELSE file_name_str

\* The token of one entry in print_normal_format.
NormalToken(entry) ==
    LET file_name_str == to_string_lossy(entry.name)
    IN  IF entry.is_dir THEN colorize_string(bold(file_name_str), ESC_BLUE)
        ELSE file_name_str

\* The loop of print_normal_format from position i on, formatted_names being
\* what it has built so far: the error of the first entry whose metadata
\* fails, or the names built.
RECURSIVE NormalLoop(_, _, _)
NormalLoop(entries, i, formatted_names) ==
    IF i > Len(entries) THEN [res |-> Ok, out |-> formatted_names]
    ELSE IF ~entries[i].e.meta_ok THEN [res |-> Err(entries[i].e.meta_err), out |-> <<>>]
    ELSE NormalLoop(entries, i + 1, formatted_names \o NormalToken(entries[i].e) \o <<" ", " ">>)

\* print_normal_format: the result and the text written to standard output.
print_normal_format(entries) ==
    LET r == NormalLoop(entries, 1, <<>>)
    IN  IF r.res.tag = "Ok" THEN [res |-> Ok, out |-> r.out \o <<"\n">>] ELSE r

\* ----------------------------------------------------------------- lister
Dirs ==
    {[open_ok |-> TRUE, open_err |-> "", stream |-> s] : s \in Streams}
        \cup {[open_ok |-> FALSE, open_err |-> e, stream |-> <<>>] : e \in OpenErrors}

Opts == [path : {"", "p"}, all : BOOLEAN, long : BOOLEAN]

Init ==
    /\ opt \in Opts
    /\ dir \in Dirs
    /\ pc = "start"
    /\ path = ""
    /\ filtered_entries = <<>>
    /\ idx = 0
    /\ result = NoResult
    /\ stdout = <<>>
    /\ stderr = <<>>
    /\ exit_status = -1
    /\ calls = 0
    /\ shown = <<>>
    /\ farg = 0
    /\ fret = <<>>
    /\ fpc = "idle"

\* main, up to the call of list_files.
Main_ParseArgs ==
    /\ pc = "start"
    /\ path' = IF opt.path = "" THEN "." ELSE opt.path
    /\ pc' = "list_files"
    /\ UNCHANGED <<opt, dir, filtered_entries, idx, result, stdout, stderr, exit_status, calls,
                   shown>>
    /\ UNCHANGED helperVars

\* list_files, up to the branch on long: read_dir and the filter.
ListFiles_ReadDir ==
    /\ pc = "list_files"
    /\ calls' = calls + 1
    /\ IF ~dir.open_ok
       THEN /\ result' = Err(dir.open_err)
            /\ pc' = "returned"
            /\ UNCHANGED <<filtered_entries, idx>>
       ELSE /\ filtered_entries' = FilterMap(dir.stream, opt.all, 1)
            /\ idx' = 1
            /\ pc' = IF opt.long THEN "long" ELSE "normal"
            /\ UNCHANGED result
    /\ UNCHANGED <<opt, dir, path, stdout, stderr, exit_status, shown>>
    /\ UNCHANGED helperVars

\* One turn of the for loop of list_files in long mode, or its end.
ListFiles_LongStep ==
    /\ pc = "long"
    /\ IF idx > Len(filtered_entries)
       THEN /\ result' = Ok
            /\ pc' = "returned"
            /\ UNCHANGED <<idx, stdout, shown>>
       ELSE LET r == print_long_format(filtered_entries[idx].e)
            IN  /\ stdout' = stdout \o r.out
                /\ IF r.res.tag = "Err"
                   THEN /\ result' = r.res
                        /\ pc' = "returned"
                        /\ UNCHANGED <<idx, shown>>
                   ELSE /\ idx' = idx + 1
                        /\ shown' = Append(shown, filtered_entries[idx].pos)
                        /\ UNCHANGED <<result, pc>>
    /\ UNCHANGED <<opt, dir, path, filtered_entries, stderr, exit_status, calls>>
    /\ UNCHANGED helperVars

\* The call of print_normal_format in list_files, and its return.
ListFiles_Normal ==
    /\ pc = "normal"
    /\ LET r == print_normal_format(filtered_entries)
       IN  /\ stdout' = stdout \o r.out
           /\ result' = r.res
           /\ shown' = IF r.res.tag = "Ok"
                       THEN shown \o [i \in 1..Len(filtered_entries) |-> filtered_entries[i].pos]
                       ELSE shown
    /\ pc' = "returned"
    /\ UNCHANGED <<opt, dir, path, filtered_entries, idx, stderr, exit_status, calls>>
    /\ UNCHANGED helperVars

\* main turning an error into a failing exit status.
Main_HandleResult_exit_code ==
    /\ pc = "returned"
    /\ stderr' = IF result.tag = "Err" THEN stderr \o <<"Error: ", result.msg, "\n">> ELSE stderr
    /\ exit_status' = IF result.tag = "Err" THEN 1 ELSE 0
    /\ pc' = "done"
    /\ UNCHANGED <<opt, dir, path, filtered_entries, idx, result, stdout, calls, shown>>
    /\ UNCHANGED helperVars

\* main, from the return of list_files to the end of the process.
Main_HandleResult ==
    /\ pc = "returned"
    /\ stderr' = IF result.tag = "Err" THEN stderr \o <<"Error: ", result.msg, "\n">> ELSE stderr
    /\ exit_status' = 0
    /\ pc' = "done"
    /\ UNCHANGED <<opt, dir, path, filtered_entries, idx, result, stdout, calls, shown>>
    /\ UNCHANGED helperVars

Next ==
    \/ Main_ParseArgs
    \/ ListFiles_ReadDir
    \/ ListFiles_LongStep
    \/ ListFiles_Normal
    \/ Main_HandleResult

Spec == Init /\ [][Next]_vars

\* ---------------------------------------------------------------- helpers
\* The sizes format_size is applied to.
SizeInputs == (0..MaxSmallSize) \cup {k * 512 * UNIT : k \in 1..MaxHalfMiB}

\* The modes format_permissions is applied to: 32768 = 0o100000 (regular
\* file), 16384 = 0o040000 (directory).
ModeInputs == {t + m : t \in {0, 16384, 32768}, m \in 0..MaxPermBits}

InitFmt ==
    /\ opt = [path |-> "", all |-> FALSE, long |-> FALSE]
    /\ dir = [open_ok |-> TRUE, open_err |-> "", stream |-> <<>>]
    /\ pc = "idle"
    /\ path = ""
    /\ filtered_entries = <<>>
    /\ idx = 0
    /\ result = NoResult
    /\ stdout = <<>>
    /\ stderr = <<>>
    /\ exit_status = -1
    /\ calls = 0
    /\ shown = <<>>
    /\ fret = <<>>
    /\ \/ fpc = "size" /\ farg \in SizeInputs
       \/ fpc = "perm" /\ farg \in ModeInputs

Call_format_size ==
    /\ fpc = "size"
    /\ fret' = format_size(farg)
    /\ fpc' = "size_done"
    /\ UNCHANGED farg
    /\ UNCHANGED listerVars

Call_format_permissions ==
    /\ fpc = "perm"
    /\ fret' = format_permissions(farg)
    /\ fpc' = "perm_done"
    /\ UNCHANGED farg
    /\ UNCHANGED listerVars

NextFmt ==
    \/ Call_format_size
    \/ Call_format_permissions

SpecFmt == InitFmt /\ [][NextFmt]_vars

\* ------------------------------------------------- vocabulary of the claims
Range(f) == {f[i] : i \in DOMAIN f}

IsPrefix(a, b) == Len(a) <= Len(b) /\ a = SubSeq(b, 1, Len(a))

\* The entry at position i of the directory has a name beginning with ".".
IsHidden(i) == Len(dir.stream[i].name) > 0 /\ dir.stream[i].name[1] = "."

\* The entry at position i is to be rendered: it was read, and it is not
\* hidden or hidden entries are asked for.
Wanted(i) == dir.stream[i].read_ok /\ (opt.all \/ ~IsHidden(i))

\* The positions of the entries to be rendered, in enumeration order.
RECURSIVE WantedFrom(_)
WantedFrom(i) ==
    IF i > Len(dir.stream) THEN <<>>
    ELSE (IF Wanted(i) THEN <<i>> ELSE <<>>) \o WantedFrom(i + 1)

WantedSeq == WantedFrom(1)

\* Rendering the entry at position i fails: its metadata is unavailable or,
\* in detailed mode, its modification time is.
RenderFails(i) ==
    \/ ~dir.stream[i].meta_ok
    \/ opt.long /\ ~dir.stream[i].mtime_ok

\* k such that the k-th entry to be rendered is the first whose rendering
\* fails; one more than their number when none fails.
FirstFailure ==
    LET bad == {k \in 1..Len(WantedSeq) : RenderFails(WantedSeq[k])}
    IN  IF bad = {} THEN Len(WantedSeq) + 1 ELSE CHOOSE k \in bad : \A j \in bad : k <= j

\* The rows of the entries at the positions ps, one after the other.
RECURSIVE RowsOf(_)
RowsOf(ps) == IF ps = <<>> THEN <<>> ELSE LongRow(dir.stream[Head(ps)]) \o RowsOf(Tail(ps))

Finished == pc = "done"

\* ----------------------------------------------------------------- claims
\* C1, as stated: for every directory list_files is run on, the rendered
\* entries are all the entries of the directory (those the enumeration
\* yielded), less the hidden ones unless showHidden.
C1_RenderedSetAsStated ==
    Finished /\ dir.open_ok =>
        Range(shown) =
            {i \in 1..Len(dir.stream) : dir.stream[i].read_ok /\ (opt.all \/ ~IsHidden(i))}

\* C1, amended: no hidden entry is rendered unless showHidden, no entry that
\* could not be read is rendered, and when list_files returns Ok the rendered
\* entries are exactly the entries that were read, less the hidden ones
\* unless showHidden; in compact and in detailed mode.
C1_RenderedSet ==
    /\ Range(shown) \subseteq Range(WantedSeq)
    /\ Finished /\ result.tag = "Ok" => Range(shown) = Range(WantedSeq)
    /\ Finished /\ result.tag = "Ok" /\ opt.all =>
           Range(shown) = {i \in 1..Len(dir.stream) : dir.stream[i].read_ok}
    /\ Finished /\ result.tag = "Ok" /\ ~opt.all =>
           Range(shown) = {i \in 1..Len(dir.stream) : dir.stream[i].read_ok /\ ~IsHidden(i)}

C1_Witness ==
    /\ Finished
    /\ result.tag = "Ok"
    /\ ~opt.all
    /\ \E i \in 1..Len(dir.stream) : IsHidden(i)
    /\ Len(shown) >= 2

\* C2, as stated: in detailed mode the rows printed are exactly the rows of
\* the filtered entries, one each, in enumeration order.
C2_RowsAsStated ==
    Finished /\ opt.long /\ dir.open_ok =>
        /\ shown = WantedSeq
        /\ stdout = RowsOf(WantedSeq)

\* C2, amended: in detailed mode, when list_files returns Ok, the rows printed
\* are exactly the rows of the filtered entries, one each, in enumeration
\* order; when it returns Err, they are the rows of the filtered entries that
\* precede the first one whose rendering fails, one each, in that order.
C2_Rows ==
    Finished /\ opt.long /\ dir.open_ok =>
        /\ result.tag = "Ok" => shown = WantedSeq /\ stdout = RowsOf(WantedSeq)
        /\ result.tag = "Err" =>
               /\ shown = SubSeq(WantedSeq, 1, FirstFailure - 1)
               /\ stdout = RowsOf(SubSeq(WantedSeq, 1, FirstFailure - 1))
        /\ \A j, k \in 1..Len(shown) : j < k => shown[j] < shown[k]

C2_Witness ==
    /\ Finished
    /\ opt.long
    /\ result.tag = "Ok"
    /\ Len(shown) >= 3
    /\ stdout = RowsOf(shown)

\* The io::Error message of the failure of rendering the entry at position i.
FailureMessage(i) == IF ~dir.stream[i].meta_ok THEN dir.stream[i].meta_err ELSE dir.stream[i].mtime_err

ErrorLine(msg) == <<"Error: ", msg, "\n">>

Returned == pc \in {"returned", "done"}

\* C3: every failure of list_files (the directory cannot be opened, the
\* metadata or the modification time of an entry to be rendered is
\* unavailable) is printed once by main as "Error: {message}" on standard
\* error, list_files is called once, the program runs to its normal end and
\* exits with status 0, as a successful run does.
C3_FailureSurfaced ==
    /\ calls <= 1
    /\ ~Finished => ENABLED Next
    /\ ~Finished => exit_status = -1 /\ stderr = <<>>
    /\ Finished =>
           /\ exit_status = 0
           /\ calls = 1
           /\ result.tag \in {"Ok", "Err"}
           /\ result.tag = "Err" => stderr = ErrorLine(result.msg)
           /\ result.tag = "Ok" => stderr = <<>>
           /\ ~dir.open_ok => result = Err(dir.open_err)
           /\ dir.open_ok /\ FirstFailure <= Len(WantedSeq) =>
                  result = Err(FailureMessage(WantedSeq[FirstFailure]))

C3_Witness ==
    /\ Finished
    /\ ~dir.open_ok
    /\ stderr = ErrorLine("EACCES")
    /\ exit_status = 0

\* C4: when the metadata of an entry to be rendered is unavailable, list_files
\* returns an error, which main prints as it prints a failure to open the
\* directory; neither that entry nor any entry after it is rendered; in
\* compact and in detailed mode.
C4_MetadataFailureFailsAll ==
    LET bad == {k \in 1..Len(WantedSeq) : ~dir.stream[WantedSeq[k]].meta_ok}
    IN  /\ \A k \in bad : \A j \in k..Len(WantedSeq) : WantedSeq[j] \notin Range(shown)
        /\ Returned /\ dir.open_ok /\ bad # {} =>
               /\ result.tag = "Err"
               /\ ~opt.long => stdout = <<>> /\ result.msg = FailureMessage(WantedSeq[FirstFailure])
        /\ Finished /\ dir.open_ok /\ bad # {} => stderr = ErrorLine(result.msg)

C4_Witness ==
    /\ Finished
    /\ dir.open_ok
    /\ opt.long
    /\ result = Err("ENOENT")
    /\ Len(shown) >= 1
    /\ FirstFailure < Len(WantedSeq)

\* The text of a name as the program has it.
DisplayName(i) == to_string_lossy(dir.stream[i].name)

\* The tokens of the entries at the positions ps, each followed by two spaces.
RECURSIVE CompactTokens(_)
CompactTokens(ps) ==
    IF ps = <<>> THEN <<>>
    ELSE (IF dir.stream[Head(ps)].is_dir
          THEN <<"ESC[34m", "ESC[1m">> \o DisplayName(Head(ps)) \o <<"ESC[0m", "ESC[0m">>
          ELSE DisplayName(Head(ps)))
         \o <<" ", " ">> \o CompactTokens(Tail(ps))

\* C7: in compact mode a successful listing writes one line: the tokens of
\* the filtered entries in enumeration order, each followed by two spaces,
\* then a newline; the token of a directory is blue, bold, the name, reset,
\* reset, the token of another entry its name alone; an empty list gives an
\* empty line.
C7_CompactLine ==
    Finished /\ ~opt.long /\ result.tag = "Ok" =>
        /\ stdout = CompactTokens(WantedSeq) \o <<"\n">>
        /\ Len(SelectSeq(stdout, LAMBDA c : c = "\n")) = 1
        /\ WantedSeq = <<>> => stdout = <<"\n">>

C7_Witness ==
    /\ Finished
    /\ ~opt.long
    /\ result.tag = "Ok"
    /\ \E i, j \in Range(shown) : dir.stream[i].is_dir /\ ~dir.stream[j].is_dir
    /\ stdout # <<"\n">>

\* The length of the rows of the first k entries rendered.
RowsLength(k) == Len(RowsOf(SubSeq(shown, 1, k)))

\* C8: in detailed mode the owner field of the row of an entry whose uid has
\* no name is eight spaces, and so is the group field for a gid without a
\* name; the row is printed, the entries after it are rendered, and
\* list_files returns an error only when rendering an entry fails.
C8_UnknownIds ==
    opt.long =>
        /\ \A k \in 1..Len(shown) :
               LET e == dir.stream[shown[k]]
                   start == RowsLength(k - 1)
               IN  /\ ~PasswdDb(e.uid).some => SubSeq(stdout, start + 12, start + 19) = Spaces(8)
                   /\ ~GroupDb(e.gid).some => SubSeq(stdout, start + 21, start + 28) = Spaces(8)
        /\ Finished /\ dir.open_ok =>
               \A k \in 1..Len(WantedSeq) : k < FirstFailure => WantedSeq[k] \in Range(shown)
        /\ Finished /\ dir.open_ok /\ FirstFailure > Len(WantedSeq) => result.tag = "Ok"

C8_Witness ==
    /\ Finished
    /\ opt.long
    /\ result.tag = "Ok"
    /\ \E k \in 1..Len(shown) :
           /\ k < Len(shown)
           /\ ~PasswdDb(dir.stream[shown[k]].uid).some
           /\ ~GroupDb(dir.stream[shown[k]].gid).some

\* C9: in detailed mode, when rendering the k-th filtered entry fails,
\* standard output holds the rows of the first k-1 filtered entries in
\* enumeration order and no other row is ever written, and the one
\* "Error: ..." line is on standard error only once those rows are written.
C9_OutputBeforeFailure ==
    opt.long /\ dir.open_ok =>
        /\ IsPrefix(shown, SubSeq(WantedSeq, 1, FirstFailure - 1))
        /\ stdout = RowsOf(shown)
        /\ stderr # <<>> =>
               /\ FirstFailure <= Len(WantedSeq)
               /\ stdout = RowsOf(SubSeq(WantedSeq, 1, FirstFailure - 1))
               /\ stderr = ErrorLine(FailureMessage(WantedSeq[FirstFailure]))
        /\ Finished /\ FirstFailure <= Len(WantedSeq) => stderr # <<>>

C9_Witness ==
    /\ Finished
    /\ opt.long
    /\ dir.open_ok
    /\ stderr = ErrorLine("EUNSUPPORTED")
    /\ FirstFailure = 3
    /\ Len(shown) = 2

\* C10: an item of the directory stream that cannot be read is dropped: it is
\* not rendered, its error is not reported and does not make list_files
\* fail, and the entries after it are listed; the run ends successfully when
\* rendering no entry fails.
C10_ReadErrorDropped ==
    LET unread == {i \in 1..Len(dir.stream) : ~dir.stream[i].read_ok}
    IN  /\ \A i \in unread : i \notin Range(shown)
        /\ \A i \in unread : result.msg # dir.stream[i].read_err
        /\ \A i \in unread : \A k \in 1..Len(stderr) : stderr[k] # dir.stream[i].read_err
        /\ Finished /\ dir.open_ok /\ FirstFailure > Len(WantedSeq) =>
               /\ result = Ok
               /\ stderr = <<>>
               /\ shown = WantedSeq

C10_Witness ==
    /\ Finished
    /\ result = Ok
    /\ \E i \in 1..Len(dir.stream) :
           /\ ~dir.stream[i].read_ok
           /\ \E j \in Range(shown) : i < j

\* The quotient num/den in tenths, rounded to the nearest, ties to even.
RoundedTenths(num, den) ==
    LET t == (10 * num) \div den
        r == (10 * num) % den
    IN  IF 2 * r > den \/ (2 * r = den /\ t % 2 = 1) THEN t + 1 ELSE t

\* The size as the claim has it: bytes below 1024 as they are, otherwise
\* bytes / 1024^exponent with one fractional digit and the unit letter.
HumanizedSize(bytes) ==
    IF bytes < 1024 THEN ToDec(bytes) \o <<" ", "B">>
    ELSE LET exponent == CHOOSE e \in 1..6 : Pow(1024, e) <= bytes /\ bytes < Pow(1024, e + 1)
             tenths == RoundedTenths(bytes, Pow(1024, exponent))
             letter == CASE exponent = 1 -> "K"
                         [] exponent = 2 -> "M"
                         [] exponent = 3 -> "G"
                         [] exponent = 4 -> "T"
                         [] OTHER -> "P"
         IN  ToDec(tenths \div 10) \o <<".", Digit(tenths % 10), " ", letter, "B">>

\* C5: format_size(bytes) is "{bytes} B" below 1024 and otherwise
\* bytes / 1024^exponent with exactly one fractional digit, a space, the unit
\* letter of the exponent and "B": 1024 gives "1.0 KB", 1536 "1.5 KB",
\* 2048 "2.0 KB", 1048576 "1.0 MB".
C5_FormatSize ==
    fpc = "size_done" =>
        /\ fret = HumanizedSize(farg)
        /\ farg = 1024 => fret = <<"1", ".", "0", " ", "K", "B">>
        /\ farg = 1536 => fret = <<"1", ".", "5", " ", "K", "B">>
        /\ farg = 2048 => fret = <<"2", ".", "0", " ", "K", "B">>
        /\ farg = 1048576 => fret = <<"1", ".", "0", " ", "M", "B">>

\* The letter of the i-th permission character.
PermissionLetter(i) == <<"r", "w", "x">>[((i - 1) % 3) + 1]

\* C6: format_permissions(mode) has nine characters, the i-th being the
\* letter of the i-th permission bit, from owner-read down to other-execute,
\* when that bit is set in mode and "-" otherwise, whatever bits mode has
\* above 0o777: 0o755 gives "rwxr-xr-x", 0o644 "rw-r--r--", 0 "---------".
C6_FormatPermissions ==
    fpc = "perm_done" =>
        /\ Len(fret) = 9
        /\ \A i \in 1..9 :
               fret[i] = IF (farg \div Pow(2, 9 - i)) % 2 = 1 THEN PermissionLetter(i) ELSE "-"
        /\ farg = 493 => fret = <<"r", "w", "x", "r", "-", "x", "r", "-", "x">>
        /\ farg = 420 => fret = <<"r", "w", "-", "r", "-", "-", "r", "-", "-">>
        /\ farg = 0 => fret = <<"-", "-", "-", "-", "-", "-", "-", "-", "-">>

\* A directory's mode with the sticky bit: 0o041777.
C6_Witness ==
    /\ fpc = "perm_done"
    /\ farg = 16384 + 1023
    /\ fret = <<"r", "w", "x", "r", "w", "x", "r", "w", "x">>

====
